---- MODULE Spec2Model ----
(***************************************************************************)
(* Model of app.py: the rewards dashboard.  load_data reads rewards.csv    *)
(* into a data frame, calculate_stats derives the statistics report,       *)
(* generate_monthly_table derives the running-balance ledger, and the two  *)
(* Flask handlers index (GET /) and api_stats (GET /api/stats) serve them. *)
(*                                                                         *)
(* amount_usd is a float in the program.  Here an amount is an integer     *)
(* number of 1/Scale dollars and all arithmetic on amounts is exact.       *)
(* A calendar date is a tuple <<year, month, day>>.  A quotient that the   *)
(* program does not round is a fraction [num, den] in lowest terms.  The   *)
(* std_dev column of by_phone (a square root) is left out of the report.   *)
(***************************************************************************)
EXTENDS Integers, Sequences, FiniteSets

\* ------------------------------------------------------------------------
\* Bounds of the model
\* ------------------------------------------------------------------------

\* Largest number of rows of rewards.csv in the specification Spec.
MaxRows == 3

\* Largest number of rows of rewards.csv in the specification SpecAlias.
MaxAliasRows == 4

\* ------------------------------------------------------------------------
\* Numbers
\* ------------------------------------------------------------------------

\* Amount units per dollar: an amount_usd of 1.0 is Scale units.
Scale == 100000

Abs(x) == IF x < 0 THEN -x ELSE x

RECURSIVE Gcd(_, _)
Gcd(a, b) == IF b = 0 THEN Abs(a) ELSE Gcd(b, a % Abs(b))

\* The exact quotient num / den (den # 0) as a fraction in lowest terms with a
\* positive denominator: the value of a float division that is not rounded.
Ratio(num, den) ==
    LET g == Gcd(num, den)
        s == IF den < 0 THEN -1 ELSE 1
    IN  [num |-> s * (num \div g), den |-> s * (den \div g)]

\* The number n as a fraction.
Whole(n) == [num |-> n, den |-> 1]

\* round-half-to-even of the exact quotient num / den (den > 0), the rule of
\* Python's round(), numpy's round and the 'f' format.
RoundHalfEvenDiv(num, den) ==
    LET q == num \div den
        r == num % den
    IN  IF 2 * r < den THEN q
        ELSE IF 2 * r > den THEN q + 1
        ELSE IF q % 2 = 0 THEN q ELSE q + 1

\* .round(4) / round(x, 4) of an amount: the nearest multiple of 0.0001.
Round4(x) == RoundHalfEvenDiv(x, Scale \div 10000) * (Scale \div 10000)

\* round(x, 2) of an amount: the nearest multiple of 0.01.
Round2(x) == RoundHalfEvenDiv(x, Scale \div 100) * (Scale \div 100)

\* The smallest element of a non-empty set of integers.
SetMin(S) == CHOOSE x \in S : \A y \in S : x <= y

\* The largest element of a non-empty set of integers.
SetMax(S) == CHOOSE x \in S : \A y \in S : y <= x

\* The elements of a finite set of integers in ascending order: the order in
\* which groupby(...) and sort_index() present the group keys.
RECURSIVE SortedSeq(_)
SortedSeq(S) ==
    IF S = {} THEN <<>>
    ELSE LET m == SetMin(S) IN <<m>> \o SortedSeq(S \ {m})

\* Sum of f[i] over the indices i of a sequence or function with finite domain.
RECURSIVE SumOver(_, _)
SumOver(f, D) ==
    IF D = {} THEN 0
    ELSE LET i == CHOOSE j \in D : TRUE IN f[i] + SumOver(f, D \ {i})

\* ------------------------------------------------------------------------
\* Calendar (datetime / pandas Timestamp arithmetic on day-granular dates)
\* ------------------------------------------------------------------------

IsLeap(y) == (y % 4 = 0) /\ ((y % 100 # 0) \/ (y % 400 = 0))

DaysBeforeMonth(y, m) ==
    LET base == <<0, 31, 59, 90, 120, 151, 181, 212, 243, 273, 304, 334>>
    IN  base[m] + (IF m > 2 /\ IsLeap(y) THEN 1 ELSE 0)

DaysBeforeYear(y) ==
    LET p == y - 1 IN p * 365 + (p \div 4) - (p \div 100) + (p \div 400)

\* Proleptic Gregorian ordinal of a date (date.toordinal()): 0001-01-01 is 1.
Ordinal(d) == DaysBeforeYear(d[1]) + DaysBeforeMonth(d[1], d[2]) + d[3]

\* Ordinal of the Monday that starts ISO week 1 of a year.
IsoWeek1Monday(y) ==
    LET firstday == Ordinal(<<y, 1, 1>>)
        firstweekday == (firstday + 6) % 7
        monday == firstday - firstweekday
    IN  IF firstweekday > 3 THEN monday + 7 ELSE monday

\* isocalendar() of a date: <<ISO year, ISO week>>.
IsoCalendar(d) ==
    LET y == d[1]
        today == Ordinal(d)
        week == (today - IsoWeek1Monday(y)) \div 7
    IN  IF week < 0
          THEN <<y - 1, ((today - IsoWeek1Monday(y - 1)) \div 7) + 1>>
          ELSE IF week >= 52 /\ today >= IsoWeek1Monday(y + 1)
                 THEN <<y + 1, 1>>
                 ELSE <<y, week + 1>>

\* .dt.isocalendar().week: the ISO week number alone.
IsoWeek(d) == IsoCalendar(d)[2]

\* .dt.year: the calendar year of a date.
CalendarYear(d) == d[1]

\* .dt.to_period('M'): the calendar month <<year, month>> of a date.
ToPeriodM(d) == <<d[1], d[2]>>

\* Periods sort chronologically; this is their position on that order.
PeriodOrd(p) == p[1] * 12 + (p[2] - 1)

\* The period at a position of the chronological order.
PeriodOfOrd(n) == <<n \div 12, (n % 12) + 1>>

\* month + 1 for a monthly period.
NextPeriod(p) == PeriodOfOrd(PeriodOrd(p) + 1)

\* period.to_timestamp(): the first day of the month.
ToTimestamp(p) == <<p[1], p[2], 1>>

\* strftime('%d/%m/%y'): day, month and two-digit year.
StrfDMY(d) == <<d[3], d[2], d[1] % 100>>

\* ------------------------------------------------------------------------
\* Data frames
\* ------------------------------------------------------------------------

\* Python's None.
None == [kind |-> "None"]

\* A data frame: its column labels in order and its rows in order; a row maps
\* each column label to the cell's value.
Frame(columns, rows) == [kind |-> "frame", columns |-> columns, rows |-> rows]

\* df.empty
IsEmpty(df) == Len(df.rows) = 0

\* The set of labels of a sequence of column labels.
Labels(columns) == {columns[i] : i \in DOMAIN columns}

\* df[name] = cells[name] for each name of names, in order: an existing
\* column is overwritten in place, a new one is appended after the last
\* column; cells[name][i] is the cell of row i.  The frame is changed in
\* place; the result is the frame the caller's variable now refers to.
SetColumns(df, names, cells) ==
    Frame(df.columns \o SelectSeq(names, LAMBDA n : n \notin Labels(df.columns)),
          [i \in DOMAIN df.rows |->
              [c \in DOMAIN df.rows[i] \cup Labels(names) |->
                  IF c \in Labels(names) THEN cells[c][i] ELSE df.rows[i][c]]])

\* df[mask]: a new frame of the rows whose index is in keep, in order.
FilterRows(df, keep) ==
    LET idx == SortedSeq(keep)
    IN  Frame(df.columns, [j \in DOMAIN idx |-> df.rows[idx[j]]])

\* The position of a row's group key on the sort order of groupby(by): dates
\* and periods sort chronologically, ['year', 'week'] by year and then week.
RowKey(by, row) ==
    IF by = "date" THEN Ordinal(row["date"])
    ELSE IF by = "year_week" THEN row["year"] * 100 + row["week"]
    ELSE PeriodOrd(row[by])

\* The indices of the rows whose key is k.
RowsWithKey(df, by, k) == {i \in DOMAIN df.rows : RowKey(by, df.rows[i]) = k}

\* The distinct keys of the rows, in ascending order: the index of a groupby.
GroupKeys(df, by) == SortedSeq({RowKey(by, df.rows[i]) : i \in DOMAIN df.rows})

\* groupby(by)['amount_usd'].sum() at one key.
GroupSum(df, by, k) ==
    SumOver([i \in DOMAIN df.rows |-> df.rows[i]["amount_usd"]],
            RowsWithKey(df, by, k))

\* groupby(by)['amount_usd'].sum(): the per-key sums in ascending key order.
GroupSums(df, by) ==
    LET keys == GroupKeys(df, by)
    IN  [j \in DOMAIN keys |-> GroupSum(df, by, keys[j])]

\* df['amount_usd'].sum()
AmountSum(df) ==
    SumOver([i \in DOMAIN df.rows |-> df.rows[i]["amount_usd"]], DOMAIN df.rows)

\* Sum of a sequence of amounts.
SeqSum(s) == SumOver(s, DOMAIN s)

\* One assignment stats[key] = value, which the program makes when present
\* holds.
Entry(key, present, value) ==
    [key |-> key, present |-> present, value |-> IF present THEN value ELSE None]

\* The dictionary that a sequence of assignments to distinct keys builds.
Dict(entries) ==
    LET made == {i \in DOMAIN entries : entries[i].present}
    IN  [k \in {entries[i].key : i \in made} |->
            entries[CHOOSE i \in made : entries[i].key = k].value]

\* ------------------------------------------------------------------------
\* load_data
\* ------------------------------------------------------------------------

\* The file rewards.csv is either absent or holds a header, whose identifier
\* column is named 'alias' or 'licenseId', and data rows.
NoFile == [exists |-> FALSE]

CsvFile(idColumn, rows) == [exists |-> TRUE, idColumn |-> idColumn, rows |-> rows]

\* load_data(): None when rewards.csv does not exist, else the frame read from
\* it with the column licenseId renamed to alias.
load_data(file) ==
    IF ~file.exists THEN None
    ELSE LET name == IF file.idColumn = "licenseId" THEN "alias"
                     ELSE file.idColumn
         IN  Frame(<<name, "date", "amount_usd">>,
                   [i \in DOMAIN file.rows |->
                       [c \in {name, "date", "amount_usd"} |->
                           IF c = name THEN file.rows[i].id
                           ELSE IF c = "date" THEN file.rows[i].date
                           ELSE file.rows[i].amount_usd]])

\* ------------------------------------------------------------------------
\* generate_monthly_table
\* ------------------------------------------------------------------------

\* df['date'].dt.to_period('M'): the calendar month of each date.
MonthColumn(df) == [i \in DOMAIN df.rows |-> ToPeriodM(df.rows[i]["date"])]

\* saldo_inicial = -5000, the starting balance in dollars.
StartingBalance == -5000

\* saldo_final without the opening balance.
ClosingBalanceNoCarry(saldo_inicial, liquido) == liquido

\* saldo_final = saldo_inicial + liquido
ClosingBalance(saldo_inicial, liquido) == saldo_inicial + liquido

\* The 'f' format with one decimal followed by '%', of the percentage whose
\* tenths are the fraction num / den (den > 0): sign, integer part, '.', the
\* decimal digit, '%'.  First with the tenths cut off instead of rounded.
FormatPercent1Truncated(num, den) ==
    LET tenths == Abs(num) \div den
    IN  <<IF num < 0 THEN "-" ELSE "", tenths \div 10, ".", tenths % 10, "%">>

FormatPercent1(num, den) ==
    LET tenths == RoundHalfEvenDiv(Abs(num), den)
    IN  <<IF num < 0 THEN "-" ELSE "", tenths \div 10, ".", tenths % 10, "%">>

\* The ledger rows for the months at positions i..Len(months), the first of
\* them opening at saldo_inicial: one iteration of the for loop per month.
RECURSIVE LedgerRows(_, _, _, _)
LedgerRows(months, sums, i, saldo_inicial) ==
    IF i > Len(months) THEN <<>>
    ELSE LET month == PeriodOfOrd(months[i])
             gastos == 0
             bruto == sums[i]
             liquido == bruto + gastos
             saldo_final == ClosingBalance(saldo_inicial, liquido)
             row == [mes_ref |-> IF i > 1 THEN StrfDMY(ToTimestamp(month))
                                 ELSE <<"-">>,
                     mes |-> StrfDMY(ToTimestamp(NextPeriod(month))),
                     saldo_inicial |-> saldo_inicial,
                     gastos |-> gastos,
                     bruto |-> bruto,
                     liquido |-> liquido,
                     saldo_final |-> saldo_final]
         IN  <<row>> \o LedgerRows(months, sums, i + 1, saldo_final)

\* The closing-percentage text of the TOTAL row.
ClosingPercent(monthly_df) ==
    IF Len(monthly_df) > 0
      THEN LET last == monthly_df[Len(monthly_df)].saldo_final
           \* (last + 5000) / 5000 * 100 is (last + 5000) / 5 tenths
           IN  FormatPercent1(last + 5000 * Scale, 5 * Scale)
      ELSE <<"%">>

\* generate_monthly_table(df): the frame as the call leaves it, the ledger
\* (monthly_df) and the TOTAL row (sum_row); (None, None) for no data.
generate_monthly_table(df) ==
    IF df = None \/ IsEmpty(df)
      THEN [df |-> df, monthly_df |-> None, sum_row |-> None]
      ELSE LET df1 == SetColumns(df, <<"year_month">>,
                                 [c \in {"year_month"} |-> MonthColumn(df)])
               months == GroupKeys(df1, "year_month")
               sums == GroupSums(df1, "year_month")
               table == LedgerRows(months, sums, 1, StartingBalance * Scale)
           IN  [df |-> df1,
                monthly_df |-> [kind |-> "frame", rows |-> table],
                sum_row |-> [mes_ref |-> "TOTAL",
                             mes |-> "",
                             saldo_inicial |-> "",
                             gastos |-> SeqSum([i \in DOMAIN table |-> table[i].gastos]),
                             bruto |-> SeqSum([i \in DOMAIN table |-> table[i].bruto]),
                             liquido |-> SeqSum([i \in DOMAIN table |-> table[i].liquido]),
                             saldo_final |-> ClosingPercent(table)]]

\* ------------------------------------------------------------------------
\* calculate_stats
\* ------------------------------------------------------------------------

\* The dates of the rows as ordinals.
DateKey(row) == Ordinal(row["date"])

\* The date of an ordinal among the dates of the frame.
DateOfOrdinal(df, o) ==
    LET i == CHOOSE j \in DOMAIN df.rows : Ordinal(df.rows[j]["date"]) = o
    IN  df.rows[i]["date"]

\* Series.mean(): the sum over the count, not rounded.
Mean(sums) == Ratio(SeqSum(sums), Len(sums))

\* round(mean, 4) of a series of amounts.
MeanRound4(sums) ==
    RoundHalfEvenDiv(SeqSum(sums), Len(sums) * (Scale \div 10000)) * (Scale \div 10000)

\* The first position of the largest (smallest) value: idxmax() and idxmin().
IdxMax(sums) ==
    CHOOSE i \in DOMAIN sums :
        /\ \A j \in DOMAIN sums : sums[j] <= sums[i]
        /\ \A j \in DOMAIN sums : j < i => sums[j] < sums[i]

IdxMin(sums) ==
    CHOOSE i \in DOMAIN sums :
        /\ \A j \in DOMAIN sums : sums[j] >= sums[i]
        /\ \A j \in DOMAIN sums : j < i => sums[j] > sums[i]

\* The guard on the current sum instead of the previous one.
PercentChangeGuardCurr(curr, prev) ==
    IF curr > 0 /\ prev # 0
      THEN LET q == Ratio(curr - prev, prev) IN Ratio(q.num * 100, q.den)
      ELSE Whole(0)

\* ((curr - prev) / prev * 100) if prev > 0 else 0
PercentChange(curr, prev) ==
    IF prev > 0
      THEN LET q == Ratio(curr - prev, prev) IN Ratio(q.num * 100, q.den)
      ELSE Whole(0)

\* {'amount': curr - prev, 'percent': ...} of the last two sums of a series.
Change(sums) ==
    LET curr == sums[Len(sums)]
        prev == sums[Len(sums) - 1]
    IN  [amount |-> curr - prev, percent |-> PercentChange(curr, prev)]

\* The rolling windows of the loop over [7, 14, 30].
WindowDays == <<7, 14, 30>>

WindowField(days) ==
    IF days = 7 THEN "last_7_days"
    ELSE IF days = 14 THEN "last_14_days" ELSE "last_30_days"

\* The comparison with the cutoff inverted.
RecentInverted(df, days) ==
    LET today == SetMax({DateKey(df.rows[i]) : i \in DOMAIN df.rows})
        cutoff == today - (days - 1)
    IN  FilterRows(df, {i \in DOMAIN df.rows : DateKey(df.rows[i]) <= cutoff})

\* recent = df[df['date'] >= today - timedelta(days=days-1)]
Recent(df, days) ==
    LET today == SetMax({DateKey(df.rows[i]) : i \in DOMAIN df.rows})
        cutoff == today - (days - 1)
    IN  FilterRows(df, {i \in DOMAIN df.rows : DateKey(df.rows[i]) >= cutoff})

\* One pass of the loop over the windows: stats[f'last_{days}_days'] is
\* assigned if recent is not empty.
WindowEntry(df, days) ==
    Entry(WindowField(days), ~IsEmpty(Recent(df, days)),
          [total |-> AmountSum(Recent(df, days)),
           avg_per_day |-> Mean(GroupSums(Recent(df, days), "date")),
           entries |-> Len(Recent(df, days).rows)])

\* The labels total and avg_per_entry assigned in the wrong order.
PhoneStatsSwapped(df, phone) ==
    LET rows == {i \in DOMAIN df.rows : df.rows[i]["alias"] = phone}
        total == SumOver([i \in DOMAIN df.rows |-> df.rows[i]["amount_usd"]], rows)
    IN  [total |->
             RoundHalfEvenDiv(total, Cardinality(rows) * (Scale \div 10000))
                 * (Scale \div 10000),
         avg_per_entry |-> Round4(total),
         entries |-> Cardinality(rows)]

\* The per-alias row of by_phone: sum, mean and count rounded to 4 decimals
\* (std_dev, a square root, is not part of the model).
PhoneStats(df, phone) ==
    LET rows == {i \in DOMAIN df.rows : df.rows[i]["alias"] = phone}
        total == SumOver([i \in DOMAIN df.rows |-> df.rows[i]["amount_usd"]], rows)
    IN  [total |-> Round4(total),
         avg_per_entry |->
             RoundHalfEvenDiv(total, Cardinality(rows) * (Scale \div 10000))
                 * (Scale \div 10000),
         entries |-> Cardinality(rows)]

\* stats['phone_timeline'][phone]: the per-date sums of one alias, on the
\* dates of that alias.
PhoneTimeline(df, phone) ==
    LET own == FilterRows(df, {i \in DOMAIN df.rows : df.rows[i]["alias"] = phone})
        days == GroupKeys(own, "date")
        sums == GroupSums(own, "date")
    IN  [dates |-> [j \in DOMAIN days |-> DateOfOrdinal(own, days[j])],
         amounts |-> [j \in DOMAIN sums |-> Round4(sums[j])]]

\* Guard first_half # 0 instead of first_half > 0.
GrowthGuardNonZero(first_half) == first_half # 0

\* if first_half > 0
GrowthGuard(first_half) == first_half > 0

\* round(((second_half - first_half) / first_half) * 100, 2), in hundredths of
\* a percent (first_half # 0).
GrowthRate(first_half, second_half) ==
    LET q == Ratio(second_half - first_half, first_half)
    IN  RoundHalfEvenDiv(q.num * 10000, q.den)

\* df['date'].dt.isocalendar().week: the ISO week number of each date.
WeekColumn(df) == [i \in DOMAIN df.rows |-> IsoWeek(df.rows[i]["date"])]

\* df['date'].dt.year: the calendar year of each date.
YearColumn(df) == [i \in DOMAIN df.rows |-> CalendarYear(df.rows[i]["date"])]

\* The frame after df['week'], df['year'] and df['month'] are assigned.
WithWeekYearMonth(df) ==
    SetColumns(df, <<"week", "year", "month">>,
               [c \in {"week", "year", "month"} |->
                   IF c = "week" THEN WeekColumn(df)
                   ELSE IF c = "year" THEN YearColumn(df)
                   ELSE MonthColumn(df)])

\* first_half: the sum of the amounts dated before min + (max - min) / 2;
\* date < mid_point is 2 * date < min + max.
FirstHalf(df) ==
    LET dates == {DateKey(df.rows[i]) : i \in DOMAIN df.rows}
        ends == SetMin(dates) + SetMax(dates)
    IN  SumOver([i \in DOMAIN df.rows |-> df.rows[i]["amount_usd"]],
                {i \in DOMAIN df.rows : 2 * DateKey(df.rows[i]) < ends})

\* second_half: the sum of the amounts dated on or after the mid point.
SecondHalf(df) ==
    LET dates == {DateKey(df.rows[i]) : i \in DOMAIN df.rows}
        ends == SetMin(dates) + SetMax(dates)
    IN  SumOver([i \in DOMAIN df.rows |-> df.rows[i]["amount_usd"]],
                {i \in DOMAIN df.rows : 2 * DateKey(df.rows[i]) >= ends})

\* stats['date_range']
DateRange(df) ==
    LET dates == {DateKey(df.rows[i]) : i \in DOMAIN df.rows}
    IN  [start |-> DateOfOrdinal(df, SetMin(dates)),
         end |-> DateOfOrdinal(df, SetMax(dates)),
         days |-> (SetMax(dates) - SetMin(dates)) + 1]

\* stats['best_day'] (pick = IdxMax) and stats['worst_day'] (pick = IdxMin).
DayAt(df, daily, pick) ==
    [date |-> DateOfOrdinal(df, GroupKeys(df, "date")[pick]), amount |-> daily[pick]]

\* stats['monthly_breakdown']: the months in order with their rounded sums.
MonthlyBreakdown(months, monthly) ==
    [j \in DOMAIN months |->
        [month |-> PeriodOfOrd(months[j]), amount |-> Round2(monthly[j])]]

\* stats['daily_timeline']
DailyTimeline(df, days, daily) ==
    [dates |-> [j \in DOMAIN days |-> DateOfOrdinal(df, days[j])],
     amounts |-> [j \in DOMAIN daily |-> Round4(daily[j])]]

\* The aliases of the frame.
Aliases(df) == {df.rows[i]["alias"] : i \in DOMAIN df.rows}

\* The assignments to stats in the order of the program; total_earned and the
\* three averages hold the values that the final rounding loop leaves.
StatsEntries(df, dfw, daily, weekly, monthly) ==
    <<Entry("total_earned", TRUE, Round4(AmountSum(df))),
      Entry("total_entries", TRUE, Len(df.rows)),
      Entry("phone_count", TRUE, Cardinality(Aliases(df))),
      Entry("date_range", TRUE, DateRange(df)),
      Entry("by_phone", TRUE, [a \in Aliases(df) |-> PhoneStats(df, a)]),
      Entry("avg_per_day", TRUE, MeanRound4(daily)),
      Entry("best_day", TRUE, DayAt(df, daily, IdxMax(daily))),
      Entry("worst_day", TRUE, DayAt(df, daily, IdxMin(daily))),
      WindowEntry(df, WindowDays[1]),
      WindowEntry(df, WindowDays[2]),
      WindowEntry(df, WindowDays[3]),
      Entry("avg_per_week", TRUE, MeanRound4(weekly)),
      Entry("weekly_change", Len(weekly) >= 2, Change(weekly)),
      Entry("avg_per_month", TRUE, MeanRound4(monthly)),
      Entry("total_months", TRUE, Len(monthly)),
      Entry("monthly_breakdown", TRUE,
            MonthlyBreakdown(GroupKeys(dfw, "month"), monthly)),
      Entry("monthly_change", Len(monthly) >= 2, Change(monthly)),
      Entry("daily_change", Len(daily) >= 2, Change(daily)),
      Entry("growth_rate", GrowthGuard(FirstHalf(dfw)),
            GrowthRate(FirstHalf(dfw), SecondHalf(dfw))),
      Entry("daily_timeline", TRUE,
            DailyTimeline(dfw, GroupKeys(dfw, "date"), daily)),
      Entry("phone_timeline", TRUE,
            [a \in Aliases(dfw) |-> PhoneTimeline(dfw, a)])>>

\* calculate_stats(df): the frame as the call leaves it and the report
\* (None for no data).
calculate_stats(df) ==
    IF df = None \/ IsEmpty(df) THEN [df |-> df, stats |-> None]
    ELSE [df |-> WithWeekYearMonth(df),
          stats |-> Dict(StatsEntries(df, WithWeekYearMonth(df),
                                      GroupSums(df, "date"),
                                      GroupSums(WithWeekYearMonth(df), "year_week"),
                                      GroupSums(WithWeekYearMonth(df), "month")))]

\* ------------------------------------------------------------------------
\* The request handlers
\* ------------------------------------------------------------------------

VARIABLES
    file,       \* rewards.csv on disk
    route,      \* the handler serving the request: "none", "index", "api"
    pc,         \* the handler's position
    df,         \* the handler's local df
    stats,      \* the handler's local stats
    monthly,    \* the handler's locals monthly_df and monthly_sum
    calls,      \* the functions the request has invoked, in order
    given,      \* the frame passed to the latest call that takes df
    response    \* what the handler returned

vars == <<file, route, pc, df, stats, monthly, calls, given, response>>

\* A local that is not assigned yet.
Unset == [kind |-> "unset"]

\* The rows of the files of Spec: dates on both sides of a year boundary, in
\* three months and 2, 11 and 22 days apart; amounts of either sign, and one
\* row of a second alias with an amount that is no multiple of 5 dollars.
MainDates == {<<2024, 12, 30>>, <<2025, 1, 1>>, <<2025, 1, 10>>, <<2025, 2, 1>>}

MainAmounts == {-100 * Scale, 100 * Scale}

MainRows ==
    [id : {"A"}, date : MainDates, amount_usd : MainAmounts]
        \cup {[id |-> "B", date |-> <<2024, 12, 30>>, amount_usd |-> 3 * Scale]}

\* The rows of the files of SpecAlias: four aliases on one date with amounts
\* that are no multiples of 0.0001 dollars.
AliasRows ==
    [id : {"A", "B", "C", "D"}, date : {<<2024, 3, 15>>}, amount_usd : {4}]
        \cup {[id |-> "A", date |-> <<2024, 3, 15>>, amount_usd |-> 9]}

\* The tables of at most n rows drawn from R.
Tables(R, n) == UNION {[1..k -> R] : k \in 0..n}

MainFiles == {NoFile} \cup {CsvFile("alias", t) : t \in Tables(MainRows, MaxRows)}

AliasFiles ==
    {NoFile} \cup {CsvFile("licenseId", t) : t \in Tables(AliasRows, MaxAliasRows)}

InitWith(files) ==
    /\ file \in files
    /\ route = "none"
    /\ pc = "idle"
    /\ df = Unset
    /\ stats = Unset
    /\ monthly = Unset
    /\ calls = <<>>
    /\ given = Unset
    /\ response = Unset

Init == InitWith(MainFiles)

InitAlias == InitWith(AliasFiles)

\* index(): df = load_data()
IndexLoad ==
    /\ pc = "idle"
    /\ route' = "index"
    /\ df' = load_data(file)
    /\ calls' = Append(calls, "load_data")
    /\ UNCHANGED given
    /\ pc' = "index_loaded"
    /\ UNCHANGED <<file, stats, monthly, response>>

\* index(): if df is None: return the message, 404
IndexNotFound ==
    /\ pc = "index_loaded"
    /\ df = None
    /\ response' = [status |-> 404, body |-> "Erro: rewards.csv nao encontrado"]
    /\ pc' = "done"
    /\ UNCHANGED <<file, route, df, stats, monthly, calls, given>>

\* index(): stats = calculate_stats(df)
IndexStats ==
    /\ pc = "index_loaded"
    /\ df # None
    /\ LET r == calculate_stats(df)
       IN  /\ df' = r.df
           /\ stats' = r.stats
    /\ calls' = Append(calls, "calculate_stats")
    /\ given' = df
    /\ pc' = "index_stats"
    /\ UNCHANGED <<file, route, monthly, response>>

\* index(): monthly_df, monthly_sum = generate_monthly_table(df)
IndexMonthly ==
    /\ pc = "index_stats"
    /\ LET r == generate_monthly_table(df)
       IN  /\ df' = r.df
           /\ monthly' = [monthly_df |-> r.monthly_df, monthly_sum |-> r.sum_row]
    /\ calls' = Append(calls, "generate_monthly_table")
    /\ given' = df
    /\ pc' = "index_table"
    /\ UNCHANGED <<file, route, stats, response>>

\* index(): return render_template('dashboard.html', ...)
IndexRender ==
    /\ pc = "index_table"
    /\ response' = [status |-> 200,
                    body |-> [template |-> "dashboard.html",
                              stats |-> stats,
                              monthly_df |-> monthly.monthly_df,
                              monthly_sum |-> monthly.monthly_sum]]
    /\ pc' = "done"
    /\ UNCHANGED <<file, route, df, stats, monthly, calls, given>>

\* api_stats(): df = load_data()
ApiLoad ==
    /\ pc = "idle"
    /\ route' = "api"
    /\ df' = load_data(file)
    /\ calls' = Append(calls, "load_data")
    /\ UNCHANGED given
    /\ pc' = "api_loaded"
    /\ UNCHANGED <<file, stats, monthly, response>>

\* api_stats(): if df is None: return jsonify({'error': ...}), 404
ApiNotFound ==
    /\ pc = "api_loaded"
    /\ df = None
    /\ response' = [status |-> 404, body |-> [error |-> "Data file not found"]]
    /\ pc' = "done"
    /\ UNCHANGED <<file, route, df, stats, monthly, calls, given>>

\* The call of calculate_stats without the test of df before it.
ApiStatsNoGuard ==
    /\ pc = "api_loaded"
    /\ LET r == calculate_stats(df)
       IN  /\ df' = r.df
           /\ stats' = r.stats
    /\ calls' = Append(calls, "calculate_stats")
    /\ given' = df
    /\ pc' = "api_stats"
    /\ UNCHANGED <<file, route, monthly, response>>

\* api_stats(): stats = calculate_stats(df)
ApiStats ==
    /\ pc = "api_loaded"
    /\ df # None
    /\ LET r == calculate_stats(df)
       IN  /\ df' = r.df
           /\ stats' = r.stats
    /\ calls' = Append(calls, "calculate_stats")
    /\ given' = df
    /\ pc' = "api_stats"
    /\ UNCHANGED <<file, route, monthly, response>>

\* api_stats(): return jsonify(stats)
ApiRespond ==
    /\ pc = "api_stats"
    /\ response' = [status |-> 200, body |-> stats]
    /\ pc' = "done"
    /\ UNCHANGED <<file, route, df, stats, monthly, calls, given>>

Next ==
    \/ IndexLoad
    \/ IndexNotFound
    \/ IndexStats
    \/ IndexMonthly
    \/ IndexRender
    \/ ApiLoad
    \/ ApiNotFound
    \/ ApiStats
    \/ ApiRespond

Spec == Init /\ [][Next]_vars

SpecAlias == InitAlias /\ [][Next]_vars

\* ------------------------------------------------------------------------
\* What the properties say, computed from the rows of rewards.csv alone
\* ------------------------------------------------------------------------

\* rewards.csv exists and has at least one data row.
NonEmptyFile == file.exists /\ Len(file.rows) > 0

\* calculate_stats has returned a report.
HasReport == stats # Unset /\ stats # None

\* generate_monthly_table has returned.
TableReturned == monthly # Unset

\* The ISO year of a date.
IsoYear(d) == IsoCalendar(d)[1]

\* The bucket of a date under a kind of bucketing: its day, its calendar
\* month, or its ISO week (ISO year, ISO week); buckets sort chronologically.
BucketOf(kind, d) ==
    IF kind = "day" THEN Ordinal(d)
    ELSE IF kind = "month" THEN d[1] * 12 + d[2]
    ELSE IsoYear(d) * 100 + IsoWeek(d)

\* The buckets of a kind that the file's rows fall in.
FileBuckets(kind) == {BucketOf(kind, file.rows[i].date) : i \in DOMAIN file.rows}

\* The sum of the amounts of the file's rows in one bucket.
FileBucketSum(kind, b) ==
    SumOver([i \in DOMAIN file.rows |-> file.rows[i].amount_usd],
            {i \in DOMAIN file.rows : BucketOf(kind, file.rows[i].date) = b})

\* The chronologically last bucket and the one before it.
LastBucket(kind) == SetMax(FileBuckets(kind))

PrevBucket(kind) == SetMax(FileBuckets(kind) \ {LastBucket(kind)})

\* The sum of all amounts of the file.
FileTotal == SumOver([i \in DOMAIN file.rows |-> file.rows[i].amount_usd],
                     DOMAIN file.rows)

\* (curr - prev) / prev * 100 as a fraction (prev # 0).
PercentOf(curr, prev) ==
    LET q == Ratio(curr - prev, prev) IN Ratio(q.num * 100, q.den)

\* The sums of the two halves of the date span: amounts dated strictly before
\* min + (max - min) / 2, and amounts dated on or after it.
FirstHalfSum ==
    LET lo == SetMin(FileBuckets("day"))
        hi == SetMax(FileBuckets("day"))
    IN  SumOver([i \in DOMAIN file.rows |-> file.rows[i].amount_usd],
                {i \in DOMAIN file.rows : 2 * Ordinal(file.rows[i].date) < lo + hi})

SecondHalfSum == FileTotal - FirstHalfSum

\* ------------------------------------------------------------------------
\* C1
\* ------------------------------------------------------------------------

\* C1: for every non-empty transaction table the ledger of
\* generate_monthly_table has one row per month; the first row opens at
\* -5000, every row closes at its opening balance plus its net, and every
\* later row opens at the closing balance of the row before it.
C1_LedgerBalances ==
    (TableReturned /\ NonEmptyFile) =>
        /\ monthly.monthly_df # None
        /\ LET L == monthly.monthly_df.rows
           IN  /\ Len(L) = Cardinality(FileBuckets("month"))
               /\ L[1].saldo_inicial = -5000 * Scale
               /\ \A i \in DOMAIN L :
                      L[i].saldo_final = L[i].saldo_inicial + L[i].liquido
               /\ \A i \in DOMAIN L :
                      i > 1 => L[i].saldo_inicial = L[i - 1].saldo_final

\* C1 witness: a ledger of three months whose balance moves in each of them.
C1_Witness ==
    /\ TableReturned
    /\ NonEmptyFile
    /\ monthly.monthly_df # None
    /\ Len(monthly.monthly_df.rows) = 3
    /\ \A i \in 1..3 : monthly.monthly_df.rows[i].liquido # 0

\* ------------------------------------------------------------------------
\* C9
\* ------------------------------------------------------------------------

\* The text t is the percentage (last + 5000) / 5000 * 100 with one decimal
\* and a '%' suffix: its digits are the tenths nearest to the percentage.
IsClosingText(t, last) ==
    LET x == last + 5000 * Scale
    IN  /\ Len(t) = 5
        /\ t[1] = (IF x < 0 THEN "-" ELSE "")
        /\ t[2] >= 0
        /\ t[3] = "."
        /\ t[4] \in 0..9
        /\ t[5] = "%"
        /\ 2 * Abs((t[2] * 10 + t[4]) * 5 * Scale - Abs(x)) <= 5 * Scale

\* C9 as stated: generate_monthly_table always yields a TOTAL row, whose
\* closing-percentage field is the one-decimal percentage when there is a
\* month row and the bare '%' when there is none.
C9_AlwaysTotalRow ==
    TableReturned =>
        /\ monthly.monthly_sum # None
        /\ monthly.monthly_sum.mes_ref = "TOTAL"
        /\ IF NonEmptyFile
             THEN LET L == monthly.monthly_df.rows
                  IN  IsClosingText(monthly.monthly_sum.saldo_final,
                                    L[Len(L)].saldo_final)
             ELSE monthly.monthly_sum.saldo_final = <<"%">>

\* C9 amended: for a non-empty table generate_monthly_table yields a TOTAL
\* row whose closing-percentage field is (last closing balance + 5000) / 5000
\* * 100 with one decimal and a '%' suffix; for a table with no rows it
\* returns (None, None), no TOTAL row and no '%' placeholder.
C9_TotalRowUnlessEmpty ==
    TableReturned =>
        IF NonEmptyFile
          THEN /\ monthly.monthly_sum # None
               /\ monthly.monthly_sum.mes_ref = "TOTAL"
               /\ LET L == monthly.monthly_df.rows
                  IN  IsClosingText(monthly.monthly_sum.saldo_final,
                                    L[Len(L)].saldo_final)
          ELSE /\ monthly.monthly_df = None
               /\ monthly.monthly_sum = None

\* C9 witness: a TOTAL row whose percentage is rounded up to its decimal.
C9_Witness ==
    /\ TableReturned
    /\ NonEmptyFile
    /\ monthly.monthly_sum # None
    /\ LET t == monthly.monthly_sum.saldo_final
           L == monthly.monthly_df.rows
       IN  (t[2] * 10 + t[4]) * 5 * Scale > L[Len(L)].saldo_final + 5000 * Scale
    /\ monthly.monthly_sum.saldo_final[1] = ""

\* ------------------------------------------------------------------------
\* C2 (checked under SpecAlias)
\* ------------------------------------------------------------------------

\* 0.0001 dollars in amount units.
Tolerance == Scale \div 10000

\* The sum over the aliases of the reported per-alias total.
AliasTotals ==
    SumOver([a \in DOMAIN stats.by_phone |-> stats.by_phone[a].total],
            DOMAIN stats.by_phone)

\* The reported totals are the exact sums rounded to 4 decimals: multiples of
\* 0.0001 at most 0.00005 away from the sum of the file's amounts.
TotalsAreRounded ==
    /\ stats.total_earned % Tolerance = 0
    /\ 2 * Abs(stats.total_earned - FileTotal) <= Tolerance
    /\ \A a \in DOMAIN stats.by_phone :
           /\ stats.by_phone[a].total % Tolerance = 0
           /\ 2 * Abs(stats.by_phone[a].total
                      - SumOver([i \in DOMAIN file.rows |-> file.rows[i].amount_usd],
                                {i \in DOMAIN file.rows : file.rows[i].id = a}))
                  <= Tolerance

\* C2 as stated: for every non-empty table the sum of the per-alias totals of
\* calculate_stats differs from total_earned by at most 0.0001.
C2_WithinTolerance ==
    HasReport => Abs(AliasTotals - stats.total_earned) <= Tolerance

\* C2 amended: each reported total is its exact sum rounded to 4 decimals and
\* the sum of the per-alias totals differs from total_earned by at most
\* (n + 1) * 0.00005, n the number of distinct aliases.
C2_WithinAliasTolerance ==
    HasReport =>
        /\ TotalsAreRounded
        /\ DOMAIN stats.by_phone = {file.rows[i].id : i \in DOMAIN file.rows}
        /\ 2 * Abs(AliasTotals - stats.total_earned)
               <= (Cardinality(DOMAIN stats.by_phone) + 1) * Tolerance

\* C2 witness: a report of four aliases whose totals differ by 0.0002.
C2_Witness ==
    /\ HasReport
    /\ Cardinality(DOMAIN stats.by_phone) = 4
    /\ Abs(AliasTotals - stats.total_earned) = 2 * Tolerance

\* ------------------------------------------------------------------------
\* C3
\* ------------------------------------------------------------------------

\* A change field is present exactly when the file has two buckets of its
\* kind, and its percent follows the zero-guard on the sums of the last two.
ChangeAsClaimed(field, kind) ==
    /\ (field \in DOMAIN stats) <=> (Cardinality(FileBuckets(kind)) >= 2)
    /\ (field \in DOMAIN stats /\ Cardinality(FileBuckets(kind)) >= 2) =>
           LET curr == FileBucketSum(kind, LastBucket(kind))
               prev == FileBucketSum(kind, PrevBucket(kind))
           IN  stats[field].percent =
                   (IF prev <= 0 THEN Whole(0) ELSE PercentOf(curr, prev))

\* C3: weekly_change, monthly_change and daily_change are each present
\* exactly when the table has at least two distinct weeks, months, dates;
\* percent is 0 when the second-to-last bucket's sum is <= 0 and
\* (curr - prev) / prev * 100 otherwise; the computation never raises.
C3_ChangesGuarded ==
    HasReport =>
        /\ ChangeAsClaimed("weekly_change", "isoweek")
        /\ ChangeAsClaimed("monthly_change", "month")
        /\ ChangeAsClaimed("daily_change", "day")
        /\ (pc = "done" => response.status = 200)

\* ------------------------------------------------------------------------
\* C4
\* ------------------------------------------------------------------------

\* The last two monthly sums of the file are 100 and 0, in that order.
LastMonthsAre100And0 ==
    /\ NonEmptyFile
    /\ Cardinality(FileBuckets("month")) >= 2
    /\ FileBucketSum("month", PrevBucket("month")) = 100 * Scale
    /\ FileBucketSum("month", LastBucket("month")) = 0

\* C4 as stated: a table whose last two monthly sums are 100 and 0 yields
\* monthly_change.percent = 0 and no error.
C4_PercentZero ==
    (HasReport /\ LastMonthsAre100And0) =>
        /\ "monthly_change" \in DOMAIN stats
        /\ stats["monthly_change"].percent = Whole(0)
        /\ (pc = "done" => response.status = 200)

\* C4 amended: a table whose last two monthly sums are 100 and 0 yields
\* monthly_change.percent = -100 (and amount = -100) and no error.
C4_PercentMinus100 ==
    (HasReport /\ LastMonthsAre100And0) =>
        /\ "monthly_change" \in DOMAIN stats
        /\ stats["monthly_change"].percent = Whole(-100)
        /\ stats["monthly_change"].amount = -100 * Scale
        /\ (pc = "done" => response.status = 200)

\* C4 witness: the report of such a table has been served.
C4_Witness ==
    /\ HasReport
    /\ LastMonthsAre100And0
    /\ pc = "done"
    /\ route = "api"

\* ------------------------------------------------------------------------
\* C5
\* ------------------------------------------------------------------------

\* The report's growth_rate, in hundredths of a percent, is
\* (second - first) / first * 100 at the report's two decimals.
GrowthRateAsClaimed ==
    /\ "growth_rate" \in DOMAIN stats
    /\ LET q == Ratio(SecondHalfSum - FirstHalfSum, FirstHalfSum)
       IN  2 * Abs(stats["growth_rate"] * q.den - q.num * 10000) <= q.den

\* C5 as stated: growth_rate is omitted when the first-half sum is exactly 0
\* and is (second - first) / first * 100 for every other first-half sum.
C5_OmittedOnlyAtZero ==
    HasReport =>
        IF FirstHalfSum = 0 THEN "growth_rate" \notin DOMAIN stats
                            ELSE GrowthRateAsClaimed

\* C5 amended: growth_rate is omitted when the first-half sum is <= 0 and is
\* (second - first) / first * 100, rounded to 2 decimals, when it is > 0.
C5_OmittedUnlessPositive ==
    HasReport =>
        IF FirstHalfSum <= 0 THEN "growth_rate" \notin DOMAIN stats
                             ELSE GrowthRateAsClaimed

\* C5 witness: a report for a table whose first-half sum is negative.
C5_Witness ==
    /\ HasReport
    /\ FirstHalfSum < 0
    /\ "growth_rate" \notin DOMAIN stats

\* ------------------------------------------------------------------------
\* C6
\* ------------------------------------------------------------------------

\* C6: when rewards.csv does not exist, load_data returns None, both
\* handlers finish with a 404 response (api_stats with the error object),
\* and the request never invokes calculate_stats or generate_monthly_table.
C6_MissingFileIs404 ==
    ~file.exists =>
        /\ pc \in {"idle", "index_loaded", "api_loaded", "done"}
        /\ (pc # "idle" => df = None)
        /\ \A i \in DOMAIN calls : calls[i] = "load_data"
        /\ stats = Unset
        /\ monthly = Unset
        /\ (pc = "done" => response.status = 404)
        /\ (pc = "done" /\ route = "api" =>
                response.body = [error |-> "Data file not found"])

\* C6 witness: api_stats has answered 404 for a missing file.
C6_Witness ==
    /\ ~file.exists
    /\ pc = "done"
    /\ route = "api"
    /\ response.status = 404

\* ------------------------------------------------------------------------
\* C7
\* ------------------------------------------------------------------------

\* C7: after calculate_stats or generate_monthly_table returns, the table it
\* was given has the same columns and the same rows in the same order.
C7_InputNotMutated ==
    pc \in {"index_stats", "api_stats", "index_table"} =>
        /\ df.columns = given.columns
        /\ df.rows = given.rows

\* ------------------------------------------------------------------------
\* C8
\* ------------------------------------------------------------------------

\* C8: two rows are summed into the same week bucket exactly when their dates
\* share ISO year and ISO week, and weekly_change compares the sums of the
\* chronologically last two ISO weeks.
C8_WeeksAreIsoWeeks ==
    HasReport =>
        /\ \A i, j \in DOMAIN df.rows :
               (RowKey("year_week", df.rows[i]) = RowKey("year_week", df.rows[j]))
                   <=> (IsoCalendar(df.rows[i]["date"]) = IsoCalendar(df.rows[j]["date"]))
        /\ "weekly_change" \in DOMAIN stats =>
               /\ Cardinality(FileBuckets("isoweek")) >= 2
               /\ stats["weekly_change"].amount =
                      FileBucketSum("isoweek", LastBucket("isoweek"))
                          - FileBucketSum("isoweek", PrevBucket("isoweek"))

\* ------------------------------------------------------------------------
\* C10
\* ------------------------------------------------------------------------

\* C10: for every non-empty table the report has last_7_days, last_14_days
\* and last_30_days, and 1 <= last_7_days.entries <= last_14_days.entries
\* <= last_30_days.entries <= total_entries.
C10_WindowsNested ==
    (stats # Unset /\ NonEmptyFile) =>
        /\ stats # None
        /\ {"last_7_days", "last_14_days", "last_30_days"} \subseteq DOMAIN stats
        /\ 1 <= stats["last_7_days"].entries
        /\ stats["last_7_days"].entries <= stats["last_14_days"].entries
        /\ stats["last_14_days"].entries <= stats["last_30_days"].entries
        /\ stats["last_30_days"].entries <= stats.total_entries

\* C10 witness: a report whose window grows from 14 to 30 days and whose
\* table has a row older than 30 days.
C10_Witness ==
    /\ HasReport
    /\ stats["last_14_days"].entries < stats["last_30_days"].entries
    /\ stats["last_30_days"].entries < stats.total_entries

====
